---------------------------- MODULE Spec2Model ----------------------------
(***************************************************************************)
(* A model of src/pixll_ui/src/lib.rs: the WebIDL parser (WebIDLParser),   *)
(* the FFI bridge generator and the WASM bridge (WasmBridge), a byte       *)
(* region with write_to_js / read_from_js / allocate.                      *)
(*                                                                         *)
(* Strings are sequences of one-character strings, so that trim,           *)
(* starts_with, split_whitespace, split and trim_end_matches are computed  *)
(* character by character as the standard library computes them.           *)
(***************************************************************************)
EXTENDS Integers, Sequences, FiniteSets, TLC

VARIABLES
    \* ---- WasmBridge ----
    memory,      \* the bytes behind WasmBridge.memory, index 0 .. MemoryLen-1;
                 \* <<>> when the field is null
    alive,       \* FALSE once undefined behaviour has aborted the process
    freed,       \* TRUE once free_bridge has dropped the Box<WasmBridge>
    clobbered,   \* TRUE once a write has copied bytes past the region
    used,        \* history: bytes handed out by allocate so far
    writes,      \* history: the write_to_js calls that returned, in order
    last,        \* history: the last bridge call, its arguments and result
    ncalls,      \* history: number of allocate / write_to_js calls made
    \* ---- WebIDLParser::parse ----
    input,       \* input.lines(): the lines of the text, untrimmed
    pos,         \* number of lines the for loop has consumed
    interfaces,  \* the local `interfaces`
    current_interface, \* the local `current_interface` (None or Some(..))
    presult,     \* the value parse returned, or Running
    \* ---- FFIBridgeGenerator::generate ----
    schema,      \* the argument `interfaces`
    gpc,         \* where generate stands: "types", "bridges" or "done"
    gi,          \* index of the interface the running loop is at
    gm,          \* index of the method the inner loop is at
    output,      \* the local `output`, as the blocks pushed onto it
    invoked      \* history: the last call of an emitted bridge function

arenaVars == <<memory, alive, freed, clobbered, used, writes, last, ncalls>>
parseVars == <<input, pos, interfaces, current_interface, presult>>
genVars == <<schema, gpc, gi, gm, output, invoked>>
vars == <<memory, alive, freed, clobbered, used, writes, last, ncalls,
          input, pos, interfaces, current_interface, presult,
          schema, gpc, gi, gm, output, invoked>>

(***************************************************************************)
(* Bounds.                                                                 *)
(***************************************************************************)
\* Stands for memory_len = 1024 * 1024 (lib.rs:191), scaled down.
MemoryLen == 2
\* allocate and write_to_js calls in one run.
MaxOps == 2
\* Lines of one input text.
MaxLines == 4
\* Interfaces of one schema handed to generate, and methods of one schema.
MaxInterfaces == 2
MaxMethods == 2

\* Width of the model's u32 (TLC's integers are 32-bit signed, so
\* the 32 bits of ptr and len are scaled down; no sum of two is ever reduced).
U32Bits == 16

Byte == {0, 1}
U32Max == 2^U32Bits - 1

(***************************************************************************)
(* WasmBridge (lib.rs:176-219).                                            *)
(***************************************************************************)
Addrs == 0 .. (MemoryLen - 1)

\* The byte slices passed to write_to_js: of every length up to one more
\* than the region holds, all 0, all 1, and alternating 1, 0, 1, ...
Payloads ==
    UNION {{[i \in 1..n |-> 0], [i \in 1..n |-> 1], [i \in 1..n |-> i % 2]} :
           n \in 0 .. (MemoryLen + 1)}

\* The u32 values passed to read_from_js as ptr, the values passed as len
\* (the call builds a vector of len bytes), and the sizes passed to allocate.
U32Samples == (0 .. (MemoryLen + 1)) \cup {U32Max}
ReadLens == 0 .. (MemoryLen + 1)
Sizes == 0 .. (MemoryLen + 1)

NoCall == [op |-> "none", kind |-> "ok", ptr |-> 0, len |-> 0,
           data |-> <<>>, usedBefore |-> 0]

\* fn allocate(&self, size: usize) -> u32 { 0 }
allocate(size) == 0

\* copy_nonoverlapping(data, memory.add(ptr), len): the part of the copy
\* that lands inside the region.
CopyIn(mem, ptr, data) ==
    [a \in Addrs |-> IF a >= ptr /\ a < ptr + Len(data)
                     THEN data[a - ptr + 1] ELSE mem[a]]

\* What len bytes that are not the region's can hold: any byte at each
\* position, independently.  The addresses behind the region are heap the
\* process goes on using: the vector `vec![0; len]` of a read (lib.rs:204)
\* and the allocator's bookkeeping for it are written there, so a later
\* call need not find the bytes an earlier call found.
Garbage(len) == [1..len -> Byte]

\* copy_nonoverlapping(memory.add(ptr), data, len) into vec![0; len]: every
\* element of the vector is overwritten, with the byte of the region at its
\* address, or with g[i], the byte that lies at an address outside it.
CopyOut(mem, ptr, len, g) ==
    [i \in 1..len |->
        IF ptr + i - 1 < MemoryLen THEN mem[ptr + i - 1] ELSE g[i]]

\* std::alloc::alloc returned null (lib.rs:185-187 does not test for it).
IsNull == memory = <<>>

\* The fields of the struct and the heap cannot be relied on: free_bridge
\* has freed the struct, or a write past the region has overwritten the
\* heap behind the region, where the struct and the allocator's
\* bookkeeping lie.
Wild == freed \/ clobbered

\* What the region can hold after a call made while Wild: the call copies
\* to or from wherever the overwritten field points, and the allocator
\* hands out or links memory by overwritten bookkeeping, inside the region
\* as well.
AfterWild == IF IsNull THEN {memory} ELSE [Addrs -> Byte]

\* pub fn write_to_js(&mut self, data: &[u8]) -> u32
\* A copy that leaves the region is undefined behaviour: the process
\* aborts, or the copy goes through, overwrites what lies behind the region
\* and the call returns.  So is a call when Wild, and a copy of one byte or
\* more to a null field (it returns when the address is mapped).
WriteToJs(data) ==
    /\ alive
    /\ ncalls < MaxOps
    /\ LET ptr == allocate(Len(data))
           call == [op |-> "write", kind |-> "ok", ptr |-> ptr,
                    len |-> Len(data), data |-> data, usedBefore |-> used]
           returns == /\ alive' = TRUE
                      /\ writes' = Append(writes, [ptr |-> ptr, data |-> data])
                      /\ last' = call
           aborts == /\ alive' = FALSE
                     /\ writes' = writes
                     /\ last' = [call EXCEPT !.kind = "fault"]
       IN  /\ used' = used + Len(data)
           /\ ncalls' = ncalls + 1
           /\ IF Wild
              THEN /\ memory' \in AfterWild
                   /\ clobbered' = clobbered
                   /\ returns \/ aborts
              ELSE IF IsNull
              THEN /\ memory' = memory
                   /\ clobbered' = (Len(data) > 0)
                   /\ IF Len(data) = 0 THEN returns ELSE returns \/ aborts
              ELSE /\ memory' = CopyIn(memory, ptr, data)
                   /\ clobbered' = (ptr + Len(data) > MemoryLen)
                   /\ IF ptr + Len(data) <= MemoryLen
                      THEN returns ELSE returns \/ aborts
    /\ UNCHANGED freed
    /\ UNCHANGED <<parseVars, genVars>>

\* pub fn read_from_js(&self, ptr: u32, len: u32) -> Vec<u8>
\* `vec![0; len]` aborts the process when the allocation of len > 0 bytes
\* fails.  There is no bounds check.  A copy from outside the region is
\* undefined behaviour: the process aborts, or the vector holds whatever
\* lies there.  So is a call when Wild (the region can change too), and a
\* copy from a null field (it returns what lies at the address when that
\* is mapped).
ReadFromJs(ptr, len) ==
    /\ alive
    /\ LET call == [op |-> "read", kind |-> "ok", ptr |-> ptr, len |-> len,
                    data |-> <<>>, usedBefore |-> used]
           garbage == /\ alive' = TRUE
                      /\ \E g \in Garbage(len) : last' = [call EXCEPT !.data = g]
           aborts == /\ alive' = FALSE
                     /\ last' = [call EXCEPT !.kind = "fault"]
           nomem == /\ len > 0
                    /\ alive' = FALSE
                    /\ last' = [call EXCEPT !.kind = "alloc"]
       IN  IF Wild
           THEN /\ memory' \in AfterWild
                /\ garbage \/ aborts \/ nomem
           ELSE /\ memory' = memory
                /\ IF IsNull
                   THEN IF ptr = 0 /\ len = 0
                        THEN alive' = TRUE /\ last' = call
                        ELSE garbage \/ aborts \/ nomem
                   ELSE IF ptr + len <= MemoryLen
                   THEN \/ /\ alive' = TRUE
                           /\ last' = [call EXCEPT
                                  !.data = CopyOut(memory, ptr, len, <<>>)]
                        \/ nomem
                   ELSE \/ /\ alive' = TRUE
                           /\ \E g \in Garbage(len) :
                                last' = [call EXCEPT
                                   !.data = CopyOut(memory, ptr, len, g)]
                        \/ aborts
                        \/ nomem
    /\ UNCHANGED <<freed, clobbered, used, writes, ncalls>>
    /\ UNCHANGED <<parseVars, genVars>>

\* A direct call of allocate (private to the module, called by write_to_js).
Allocate(size) ==
    /\ alive
    /\ ncalls < MaxOps
    /\ last' = [op |-> "allocate", kind |-> "ok", ptr |-> allocate(size),
                len |-> size, data |-> <<>>, usedBefore |-> used]
    /\ used' = used + size
    /\ ncalls' = ncalls + 1
    /\ UNCHANGED <<memory, alive, freed, clobbered, writes>>
    /\ UNCHANGED <<parseVars, genVars>>

\* pub extern "C" fn free_bridge(ptr: *mut WasmBridge): drop(Box::from_raw(ptr)).
\* The struct is freed; WasmBridge has no Drop, so the region stays
\* allocated and keeps its bytes.  A second call frees the struct twice,
\* and a call after a write past the region frees a heap whose bookkeeping
\* may be overwritten: undefined behaviour, the process aborts or the call
\* returns, and the allocator may have linked memory inside the region.
FreeBridge ==
    /\ alive
    /\ LET call == [op |-> "free", kind |-> "ok", ptr |-> 0, len |-> 0,
                    data |-> <<>>, usedBefore |-> used]
       IN  IF ~Wild
           THEN /\ memory' = memory
                /\ alive' = TRUE
                /\ last' = call
           ELSE /\ memory' \in AfterWild
                /\ \/ /\ alive' = TRUE
                      /\ last' = call
                   \/ /\ alive' = FALSE
                      /\ last' = [call EXCEPT !.kind = "fault"]
    /\ freed' = TRUE
    /\ UNCHANGED <<clobbered, used, writes, ncalls>>
    /\ UNCHANGED <<parseVars, genVars>>

\* No bridge function has been called.
NotInvoked == [symbol |-> <<>>, interface |-> <<>>, ret |-> "none",
               called |-> FALSE]

\* The generator's variables while generate is not running.
GenIdle ==
    /\ schema = <<>>
    /\ gpc = "idle"
    /\ gi = 0
    /\ gm = 0
    /\ output = <<>>
    /\ invoked = NotInvoked

\* The parser's variables while only the bridge runs.
ParseIdle ==
    /\ input = <<>>
    /\ pos = 0
    /\ interfaces = <<>>
    /\ current_interface = <<>>
    /\ presult = [kind |-> "Idle", err |-> "", schema |-> <<>>]

\* init_bridge(): Box::new(WasmBridge::new()); std::alloc::alloc returns
\* uninitialised bytes, or null when the allocation fails.
ArenaInit ==
    /\ memory \in [Addrs -> Byte] \cup {<<>>}
    /\ alive = TRUE
    /\ freed = FALSE
    /\ clobbered = FALSE
    /\ used = 0
    /\ writes = <<>>
    /\ last = NoCall
    /\ ncalls = 0
    /\ ParseIdle
    /\ GenIdle

ArenaNext ==
    \/ \E data \in Payloads : WriteToJs(data)
    \/ \E ptr \in U32Samples, len \in ReadLens : ReadFromJs(ptr, len)
    \/ \E size \in Sizes : Allocate(size)
    \/ FreeBridge

ArenaSpec == ArenaInit /\ [][ArenaNext]_vars

(***************************************************************************)
(* Claims about the bridge, checked under ArenaSpec.                       *)
(***************************************************************************)
\* The byte range [ptr, ptr + len) a returned write occupies.
RangeEnd(w) == w.ptr + Len(w.data)
Disjoint(a, b) == RangeEnd(a) <= b.ptr \/ RangeEnd(b) <= a.ptr

\* C1: a read of (offset, len(bytes)) for the offset an earlier write of
\* bytes returned, the write lying inside the region, returns exactly bytes,
\* whatever other writes happened in between.
C1_ReadReturnsWritten ==
    last.op = "read" =>
        \A i \in 1..Len(writes) :
            (/\ writes[i].ptr = last.ptr
             /\ Len(writes[i].data) = last.len
             /\ RangeEnd(writes[i]) <= MemoryLen)
            => (last.kind = "ok" /\ last.data = writes[i].data)

\* C2: any two writes that returned occupy byte ranges that do not overlap.
C2_WritesDisjoint ==
    \A i, j \in 1..Len(writes) : i < j => Disjoint(writes[i], writes[j])

\* C3: allocate(n) succeeds exactly when n <= capacity - used, used being
\* the bytes handed out before the call.
C3_AllocateIffFits ==
    last.op = "allocate" =>
        (last.kind = "ok" <=> last.len <= MemoryLen - last.usedBefore)

\* C4: the copy of a write stays inside the backing region: it covers
\* [offset, offset + len) with offset + len <= capacity.
C4_WriteInsideRegion ==
    last.op = "write" => last.ptr + last.len <= MemoryLen

\* C5: a read whose true sum ptr + len exceeds the capacity fails with
\* OutOfBounds (it neither returns bytes nor brings the process down).
C5_ReadOutOfBoundsFails ==
    (last.op = "read" /\ last.ptr + last.len > MemoryLen)
        => last.kind = "OutOfBounds"

\* C7: a successful allocate(size) returns the value used had before the
\* call and raises used by exactly size.
C7_AllocateBumps ==
    (last.op = "allocate" /\ last.kind = "ok")
        => (last.ptr = last.usedBefore /\ used = last.usedBefore + last.len)

(***************************************************************************)
(* Strings: sequences of one-character strings.                            *)
(***************************************************************************)
\* char::is_whitespace: the code points with the Unicode property
\* White_Space.  In this order: U+0020 space, U+0009 tab, U+000A line feed,
\* U+000B vertical tab, U+000C form feed, U+000D carriage return, U+0085
\* next line, U+00A0 no-break space, U+1680 ogham space mark.  (The others,
\* U+2000..U+200A, U+2028, U+2029, U+202F, U+205F and U+3000, cannot be
\* written in a string here, so no text of the model holds them.)
WhiteSpace ==
    {" ", "\t", "\n", "", "\f", "\r", "", " ", " "}

IsWhitespace(c) == c \in WhiteSpace

\* str::trim_start / trim_end / trim
RECURSIVE TrimStart(_)
TrimStart(s) ==
    IF s # <<>> /\ IsWhitespace(Head(s)) THEN TrimStart(Tail(s)) ELSE s

RECURSIVE TrimEnd(_)
TrimEnd(s) ==
    IF s # <<>> /\ IsWhitespace(s[Len(s)])
    THEN TrimEnd(SubSeq(s, 1, Len(s) - 1)) ELSE s

Trim(s) == TrimEnd(TrimStart(s))

\* str::starts_with(&str)
StartsWith(s, p) == Len(s) >= Len(p) /\ SubSeq(s, 1, Len(p)) = p

\* str::contains(char)
Contains(s, c) == \E i \in 1..Len(s) : s[i] = c

\* str::trim_end_matches(char): every trailing c is removed.
RECURSIVE TrimEndMatches(_, _)
TrimEndMatches(s, c) ==
    IF s # <<>> /\ s[Len(s)] = c
    THEN TrimEndMatches(SubSeq(s, 1, Len(s) - 1), c) ELSE s

\* The characters of s before its first whitespace (all of s if none).
RECURSIVE TakeToken(_)
TakeToken(s) ==
    IF s = <<>> \/ IsWhitespace(Head(s)) THEN <<>>
    ELSE <<Head(s)>> \o TakeToken(Tail(s))

\* str::split_whitespace().collect(): the maximal runs of non-whitespace.
RECURSIVE SplitWhitespace(_)
SplitWhitespace(s) ==
    LET t == TrimStart(s)
    IN  IF t = <<>> THEN <<>>
        ELSE LET tok == TakeToken(t)
             IN  <<tok>> \o SplitWhitespace(SubSeq(t, Len(tok) + 1, Len(t)))

\* str::split(c).collect()[0]: the characters before the first c.
RECURSIVE SplitHead(_, _)
SplitHead(s, c) ==
    IF s = <<>> \/ Head(s) = c THEN <<>>
    ELSE <<Head(s)>> \o SplitHead(Tail(s), c)

(***************************************************************************)
(* WebIDLParser (lib.rs:51-118).                                           *)
(***************************************************************************)
KwInterface == <<"i", "n", "t", "e", "r", "f", "a", "c", "e">>
KwReadonly == <<"r", "e", "a", "d", "o", "n", "l", "y">>
CloseToken == <<"}", ";">>

None == <<>>
Some(x) == <<x>>

Running == [kind |-> "Running", err |-> "", schema |-> <<>>]
Ok(v) == [kind |-> "Ok", err |-> "", schema |-> v]
Err(e) == [kind |-> "Err", err |-> e, schema |-> <<>>]

\* enum WebIDLType (lib.rs:5-20).  A type is its base variant under some
\* number of Promise(..) wrappers; `name` is the String of Interface(..).
WebIDLType(tag) == [promise |-> 0, tag |-> tag, name |-> <<>>]
InterfaceType(n) == [promise |-> 0, tag |-> "Interface", name |-> n]
PromiseType(t) == [t EXCEPT !.promise = @ + 1]

\* fn parse_method(line: &str) -> Result<WebIDLMethod, String>
parse_method(line) ==
    [name |-> Trim(SplitHead(line, "(")),
     return_type |-> WebIDLType("Void"),
     arguments |-> <<>>,
     is_static |-> FALSE]

\* fn parse_attribute(line: &str) -> Result<WebIDLAttribute, String>
parse_attribute(line) ==
    LET parts == SplitWhitespace(line)
    IN  [name |-> TrimEndMatches(parts[Len(parts)], ";"),
         typ |-> WebIDLType("Object"),
         readonly |-> StartsWith(line, KwReadonly)]

\* lib.rs:62-73: the interface an `interface` line opens, its name the
\* second whitespace-delimited token without trailing `{`.
OpenInterface(line) ==
    [name |-> TrimEndMatches(SplitWhitespace(line)[2], "{"),
     methods |-> <<>>,
     attributes |-> <<>>]

\* lib.rs:62-65: `.nth(1).ok_or("Invalid interface definition")?` when the
\* line has no second token: parse returns the error at once, whatever
\* `interfaces` holds.
MissingNameKeepsSchema(ifs) == Ok(ifs)

MissingName(ifs) == Err("Invalid interface definition")

\* lib.rs:75-77: `if let Some(interface) = current_interface.take()
\* { interfaces.push(interface) }`, as the pair of locals afterwards.
CloseBlockKeep(ifs, cur) ==
    IF cur # None THEN [interfaces |-> Append(ifs, cur[1]), current |-> cur]
    ELSE [interfaces |-> ifs, current |-> cur]

CloseBlockFront(ifs, cur) ==
    IF cur # None THEN [interfaces |-> <<cur[1]>> \o ifs, current |-> None]
    ELSE [interfaces |-> ifs, current |-> None]

CloseBlock(ifs, cur) ==
    IF cur # None THEN [interfaces |-> Append(ifs, cur[1]), current |-> None]
    ELSE [interfaces |-> ifs, current |-> None]

\* The line the loop body works on: `let line = line.trim();`
CurrentLine == Trim(input[pos + 1])

InLoop == presult.kind = "Running" /\ pos < Len(input)

\* lib.rs:61-73: `if line.starts_with("interface")`
ParseInterfaceLine ==
    /\ InLoop
    /\ StartsWith(CurrentLine, KwInterface)
    /\ IF Len(SplitWhitespace(CurrentLine)) < 2
       THEN /\ presult' = MissingName(interfaces)
            /\ UNCHANGED <<pos, interfaces, current_interface>>
       ELSE /\ current_interface' = Some(OpenInterface(CurrentLine))
            /\ pos' = pos + 1
            /\ UNCHANGED <<presult, interfaces>>
    /\ UNCHANGED input
    /\ UNCHANGED <<arenaVars, genVars>>

\* lib.rs:74-77: `else if line == "};"`
ParseCloseLine ==
    /\ InLoop
    /\ ~StartsWith(CurrentLine, KwInterface)
    /\ CurrentLine = CloseToken
    /\ LET r == CloseBlock(interfaces, current_interface)
       IN  /\ interfaces' = r.interfaces
           /\ current_interface' = r.current
    /\ pos' = pos + 1
    /\ UNCHANGED <<input, presult>>
    /\ UNCHANGED <<arenaVars, genVars>>

\* lib.rs:78-89: `else if let Some(ref mut interface) = current_interface`
ParseMemberLine ==
    /\ InLoop
    /\ ~StartsWith(CurrentLine, KwInterface)
    /\ CurrentLine # CloseToken
    /\ current_interface # None
    /\ LET interface == current_interface[1]
       IN  IF Contains(CurrentLine, "(")
           THEN current_interface' = Some([interface EXCEPT
                    !.methods = Append(@, parse_method(CurrentLine))])
           ELSE IF CurrentLine # <<>>
           THEN current_interface' = Some([interface EXCEPT
                    !.attributes = Append(@, parse_attribute(CurrentLine))])
           ELSE current_interface' = current_interface
    /\ pos' = pos + 1
    /\ UNCHANGED <<input, presult, interfaces>>
    /\ UNCHANGED <<arenaVars, genVars>>

\* lib.rs:58-90: no branch of the if / else-if chain takes the line (it is
\* not an `interface` line, not `};`, and current_interface is None): the
\* loop goes on to the next line.
ParseSkipLine ==
    /\ InLoop
    /\ ~StartsWith(CurrentLine, KwInterface)
    /\ CurrentLine # CloseToken
    /\ current_interface = None
    /\ pos' = pos + 1
    /\ UNCHANGED <<input, presult, interfaces, current_interface>>
    /\ UNCHANGED <<arenaVars, genVars>>

\* lib.rs:92: `Ok(interfaces)` once the lines are exhausted.
ParseReturn ==
    /\ presult.kind = "Running"
    /\ pos = Len(input)
    /\ presult' = Ok(interfaces)
    /\ UNCHANGED <<input, pos, interfaces, current_interface>>
    /\ UNCHANGED <<arenaVars, genVars>>

\* The lines the input texts are made of, as input.lines() yields them.
LnInterfaceA == <<"i", "n", "t", "e", "r", "f", "a", "c", "e", " ", "A", " ", "{">>
\* Vertical tab and space, `interface`, form feed, `B{`.
LnInterfaceB == <<"", " ", "i", "n", "t", "e", "r", "f", "a", "c", "e", "\f", "B", "{">>
LnInterfaceBare == <<"i", "n", "t", "e", "r", "f", "a", "c", "e">>
LnInterfacesY == <<"i", "n", "t", "e", "r", "f", "a", "c", "e", "s", " ", "Y", " ", "{">>
LnClose == <<"}", ";">>
\* `};` before a tab and the carriage return that lines() leaves of "\r\r\n".
LnCloseSpaced == <<" ", "}", ";", "\t", "\r">>
LnMethod == <<"v", "o", "i", "d", " ", "f", "(", ")", ";">>
LnAttribute == <<"r", "e", "a", "d", "o", "n", "l", "y", " ", "a", "t", "t", "r", "i", "b", "u", "t", "e", " ", "D", "O", "M", "S", "t", "r", "i", "n", "g", " ", "n", "a", "m", "e", ";">>
LnMethodG == <<"P", "r", "o", "m", "i", "s", "e", "<", "B", ">", " ", "g", "(", "o", "p", "t", "i", "o", "n", "a", "l", " ", "l", "o", "n", "g", " ", "x", ")", ";">>
LnAttributeSize == <<"a", "t", "t", "r", "i", "b", "u", "t", "e", " ", "l", "o", "n", "g", " ", "s", "i", "z", "e", ";">>
LnEmpty == <<>>
\* A line of white space only: form feed, no-break space.
LnBlank == <<"\f", " ">>
LnJunk == <<"j", "u", "n", "k", ";">>

Lines == {LnInterfaceA, LnInterfaceB, LnInterfaceBare, LnInterfacesY,
          LnClose, LnCloseSpaced, LnMethod, LnAttribute, LnEmpty, LnJunk,
          LnMethodG, LnAttributeSize, LnBlank}

Inputs == UNION {[1..n -> Lines] : n \in 0..MaxLines}

\* The bridge's variables while only the parser runs: no bridge exists.
ArenaIdle ==
    /\ memory = <<>>
    /\ alive = FALSE
    /\ freed = FALSE
    /\ clobbered = FALSE
    /\ used = 0
    /\ writes = <<>>
    /\ last = NoCall
    /\ ncalls = 0

\* WebIDLParser::parse(input) at its first line (lib.rs:55-56).
ParseInit ==
    /\ input \in Inputs
    /\ pos = 0
    /\ interfaces = <<>>
    /\ current_interface = None
    /\ presult = Running
    /\ ArenaIdle
    /\ GenIdle

ParseNext ==
    \/ ParseInterfaceLine
    \/ ParseCloseLine
    \/ ParseMemberLine
    \/ ParseSkipLine
    \/ ParseReturn

ParseSpec == ParseInit /\ [][ParseNext]_vars

(***************************************************************************)
(* Claims about parse, checked under ParseSpec.  The input is described    *)
(* line by line, without reference to the parser's locals.                 *)
(***************************************************************************)
\* A line beginning with `interface`, and a line equal to `};`.
IsInterfaceLine(l) == StartsWith(Trim(l), KwInterface)
IsCloseLine(l) == Trim(l) = CloseToken

\* An `interface` line with no token after the keyword.
IsNamelessInterfaceLine(l) ==
    IsInterfaceLine(l) /\ Len(SplitWhitespace(l)) < 2

\* The `interface` line i is closed by a matching `};`: a `};` line follows
\* it with neither an `interface` line nor another `};` line in between.
ClosedAt(inp, i) ==
    /\ IsInterfaceLine(inp[i])
    /\ \E j \in (i + 1)..Len(inp) :
          /\ IsCloseLine(inp[j])
          /\ \A k \in (i + 1)..(j - 1) :
                ~IsInterfaceLine(inp[k]) /\ ~IsCloseLine(inp[k])

ClosedCount(inp) == Cardinality({i \in 1..Len(inp) : ClosedAt(inp, i)})
InterfaceLineCount(inp) ==
    Cardinality({i \in 1..Len(inp) : IsInterfaceLine(inp[i])})

\* A block is open when line i is reached: an `interface` line precedes it
\* with no `};` line in between.
OpenBefore(inp, i) ==
    \E j \in 1..(i - 1) :
        /\ IsInterfaceLine(inp[j])
        /\ \A k \in (j + 1)..(i - 1) : ~IsCloseLine(inp[k])

\* Line i is non-empty, is no `interface` line and no `};`, and no block is
\* open when it is reached.
StrayAt(inp, i) ==
    /\ Trim(inp[i]) # <<>>
    /\ ~IsInterfaceLine(inp[i])
    /\ ~IsCloseLine(inp[i])
    /\ ~OpenBefore(inp, i)

\* Line i is a `};` line and no block is open when it is reached.
UnexpectedCloseAt(inp, i) == IsCloseLine(inp[i]) /\ ~OpenBefore(inp, i)

\* Nothing before line i can make parse fail: no nameless `interface` line,
\* no stray line, no unexpected `};`, and no line repeated (so no name is
\* declared twice).
CleanBefore(inp, i) ==
    /\ \A j \in 1..(i - 1) :
          /\ ~IsNamelessInterfaceLine(inp[j])
          /\ ~StrayAt(inp, j)
          /\ ~UnexpectedCloseAt(inp, j)
    /\ \A j, k \in 1..(i - 1) :
          (j < k /\ ~IsCloseLine(inp[j]) /\ Trim(inp[j]) # <<>>)
              => Trim(inp[j]) # Trim(inp[k])

Returned == presult.kind \in {"Ok", "Err"}

\* C8: when parse succeeds, the Schema holds as many interfaces as there
\* are `interface` lines closed by a matching `};`; a block never closed or
\* superseded by another `interface` line is not counted.
C8_InterfaceCount ==
    presult.kind = "Ok" => Len(presult.schema) = ClosedCount(input)

\* C8 witness: parse succeeded on a text in which one `interface` line is
\* superseded by a second one, and the second is closed by `};`.
C8_Witness ==
    /\ presult.kind = "Ok"
    /\ \E i, j \in 1..Len(input) :
          /\ i < j
          /\ IsInterfaceLine(input[i])
          /\ \A k \in (i + 1)..(j - 1) : ~IsCloseLine(input[k])
          /\ ClosedAt(input, j)
    /\ InterfaceLineCount(input) > ClosedCount(input)
    /\ Len(presult.schema) >= 1

\* C9: a text with a stray line never yields a Schema, and when the stray
\* line is the first offending line parse fails with UnexpectedTokenError.
C9_StrayLineFails ==
    /\ (\E i \in 1..Len(input) : StrayAt(input, i)) => presult.kind # "Ok"
    /\ (Returned /\ \E i \in 1..Len(input) :
                        StrayAt(input, i) /\ CleanBefore(input, i))
           => presult = Err("UnexpectedTokenError")

\* C10: when a `};` line met with no block open is the first offending
\* line, parse fails with UnexpectedCloseError.
C10_UnexpectedCloseFails ==
    (Returned /\ \E i \in 1..Len(input) :
                     UnexpectedCloseAt(input, i) /\ CleanBefore(input, i))
        => presult = Err("UnexpectedCloseError")

\* The name a method declaration line declares: the identifier directly
\* before `(`.
DeclaredMethodName(l) ==
    LET toks == SplitWhitespace(SplitHead(Trim(l), "("))
    IN  IF toks = <<>> THEN <<>> ELSE toks[Len(toks)]

\* The name an `interface` line declares.
DeclaredInterfaceName(l) ==
    IF Len(SplitWhitespace(l)) < 2 THEN <<>>
    ELSE TrimEndMatches(SplitWhitespace(l)[2], "{")

\* Line i is a method declaration inside the block opened by line b.
MethodLineOf(inp, b, i) ==
    /\ b < i
    /\ IsInterfaceLine(inp[b])
    /\ \A k \in (b + 1)..i : ~IsInterfaceLine(inp[k]) /\ ~IsCloseLine(inp[k])
    /\ Contains(inp[i], "(")

\* The text declares a name twice: two methods of one block, or two
\* closed interfaces.
DeclaresDuplicate(inp) ==
    \/ \E b, i, j \in 1..Len(inp) :
          /\ i < j
          /\ MethodLineOf(inp, b, i)
          /\ MethodLineOf(inp, b, j)
          /\ DeclaredMethodName(inp[i]) = DeclaredMethodName(inp[j])
    \/ \E i, j \in 1..Len(inp) :
          /\ i < j
          /\ ClosedAt(inp, i)
          /\ ClosedAt(inp, j)
          /\ ~IsNamelessInterfaceLine(inp[i])
          /\ DeclaredInterfaceName(inp[i]) = DeclaredInterfaceName(inp[j])

\* The text has no other fault: every `interface` line has a name, no line
\* or `};` stands outside a block, and no block is left open at the end.
NoOtherFault(inp) ==
    /\ \A i \in 1..Len(inp) :
          /\ ~IsNamelessInterfaceLine(inp[i])
          /\ ~StrayAt(inp, i)
          /\ ~UnexpectedCloseAt(inp, i)
    /\ ~OpenBefore(inp, Len(inp) + 1)

UniqueNames(seq) ==
    \A i, j \in 1..Len(seq) : i < j => seq[i].name # seq[j].name

\* C11: a returned Schema has no two interfaces of one name and no
\* interface with two methods of one name, and a text that declares a name
\* twice (and has no other fault) fails with DuplicateNameError.
C11_NoDuplicateNames ==
    /\ presult.kind = "Ok" =>
          /\ UniqueNames(presult.schema)
          /\ \A i \in 1..Len(presult.schema) :
                UniqueNames(presult.schema[i].methods)
    /\ (Returned /\ DeclaresDuplicate(input) /\ NoOtherFault(input))
          => presult = Err("DuplicateNameError")

\* C12: an `interface` line with no name makes parse fail, and the failure
\* carries no Schema, whatever was closed on earlier lines.
C12_MissingNameAborts ==
    (Returned /\ \E i \in 1..Len(input) : IsNamelessInterfaceLine(input[i]))
        => (presult.kind = "Err" /\ presult.schema = <<>>)

\* C12 witness: parse failed on a nameless `interface` line after it had
\* closed an interface.
C12_Witness ==
    /\ presult.kind = "Err"
    /\ pos < Len(input)
    /\ IsNamelessInterfaceLine(input[pos + 1])
    /\ Len(interfaces) >= 1

(***************************************************************************)
(* What a declaration line declares, read off the line by the grammar:     *)
(* `[qualifier] type name(args);` and `[readonly] [attribute] type name;`. *)
(***************************************************************************)
\* The single-token keywords of the type table and the types they map to.
KeywordTable ==
    { <<<<"v", "o", "i", "d">>, "Void">>,
      <<<<"b", "o", "o", "l", "e", "a", "n">>, "Boolean">>,
      <<<<"b", "y", "t", "e">>, "Byte">>,
      <<<<"o", "c", "t", "e", "t">>, "Octet">>,
      <<<<"s", "h", "o", "r", "t">>, "Short">>,
      <<<<"l", "o", "n", "g">>, "Long">>,
      <<<<"f", "l", "o", "a", "t">>, "Float">>,
      <<<<"d", "o", "u", "b", "l", "e">>, "Double">>,
      <<<<"D", "O", "M", "S", "t", "r", "i", "n", "g">>, "String">>,
      <<<<"o", "b", "j", "e", "c", "t">>, "Object">>}

KwPromiseOpen == <<"P", "r", "o", "m", "i", "s", "e", "<">>
KwOptional == <<"o", "p", "t", "i", "o", "n", "a", "l">>
EqualsToken == <<"=">>

\* The type a type token maps to: a keyword's type, Promise of the mapped
\* inner token for `Promise<...>`, InterfaceRef for any other identifier.
RECURSIVE MapToken(_)
MapToken(tok) ==
    IF \E e \in KeywordTable : e[1] = tok
    THEN WebIDLType((CHOOSE e \in KeywordTable : e[1] = tok)[2])
    ELSE IF StartsWith(tok, KwPromiseOpen) /\ tok[Len(tok)] = ">"
    THEN PromiseType(MapToken(SubSeq(tok, Len(KwPromiseOpen) + 1, Len(tok) - 1)))
    ELSE InterfaceType(tok)

\* The parts of s between occurrences of c.
RECURSIVE SplitOn(_, _)
SplitOn(s, c) ==
    LET h == SplitHead(s, c)
    IN  IF Len(h) = Len(s) THEN <<h>>
        ELSE <<h>> \o SplitOn(SubSeq(s, Len(h) + 2, Len(s)), c)

\* One declared argument, `[optional] Type name [= default]`.
DeclaredArgument(text) ==
    LET toks == SplitWhitespace(text)
        opt == toks # <<>> /\ toks[1] = KwOptional
        rest == IF opt THEN Tail(toks) ELSE toks
    IN  [name |-> rest[2], typ |-> MapToken(rest[1]), optional |-> opt]

\* The arguments declared between `(` and `)`, in order.
DeclaredArguments(l) ==
    LET inner == SplitHead(SubSeq(l, Len(SplitHead(l, "(")) + 2, Len(l)), ")")
        parts == IF Trim(inner) = <<>> THEN <<>> ELSE SplitOn(inner, ",")
    IN  [i \in 1..Len(parts) |-> DeclaredArgument(parts[i])]

\* A method declaration with a return-type token and a name before `(`.
IsMethodDeclaration(l) ==
    /\ Contains(l, "(")
    /\ Contains(l, ")")
    /\ Len(SplitWhitespace(SplitHead(Trim(l), "("))) >= 2

DeclaredMethod(l) ==
    LET toks == SplitWhitespace(SplitHead(Trim(l), "("))
    IN  [name |-> toks[Len(toks)],
         return_type |-> MapToken(toks[Len(toks) - 1]),
         arguments |-> DeclaredArguments(Trim(l)),
         is_static |-> FALSE]

\* An attribute declaration with a type token and a name token ending `;`.
IsAttributeDeclaration(l) ==
    LET toks == SplitWhitespace(l)
    IN  /\ ~Contains(l, "(")
        /\ Len(toks) >= 2
        /\ toks[Len(toks)][Len(toks[Len(toks)])] = ";"
        /\ Len(toks[Len(toks)]) >= 2

DeclaredAttribute(l) ==
    LET toks == SplitWhitespace(l)
    IN  [name |-> SubSeq(toks[Len(toks)], 1, Len(toks[Len(toks)]) - 1),
         typ |-> MapToken(toks[Len(toks) - 1]),
         readonly |-> toks[1] = KwReadonly]

\* The line the loop consumed last was taken as a member of the open block.
MemberJustParsed ==
    /\ pos >= 1
    /\ presult.kind = "Running"
    /\ current_interface # None
    /\ ~IsInterfaceLine(input[pos])
    /\ ~IsCloseLine(input[pos])

\* C17: a method declaration line inside an open block yields the Method
\* it declares: the name before `(` (without the return-type token), the
\* mapped return type, and the declared arguments in order.
C17_MethodAsDeclared ==
    (MemberJustParsed /\ IsMethodDeclaration(input[pos]))
        => LET ms == current_interface[1].methods
           IN  ms # <<>> /\ ms[Len(ms)] = DeclaredMethod(input[pos])

\* C18: an attribute declaration line inside an open block yields the
\* Attribute it declares: the name without `;`, the mapped type, and
\* readonly exactly when the line starts with the keyword.
C18_AttributeAsDeclared ==
    (MemberJustParsed /\ IsAttributeDeclaration(input[pos]))
        => LET as == current_interface[1].attributes
           IN  as # <<>> /\ as[Len(as)] = DeclaredAttribute(input[pos])

\* The indices from i on of the `interface` lines closed by a matching
\* `};`, in source order.
RECURSIVE ClosedFrom(_, _)
ClosedFrom(inp, i) ==
    IF i > Len(inp) THEN <<>>
    ELSE (IF ClosedAt(inp, i) THEN <<i>> ELSE <<>>) \o ClosedFrom(inp, i + 1)

\* The lines k, i <= k, of the block that `interface` line b opens (up to
\* its `};`), trimmed, in source order: those with `(` when methods is
\* TRUE, the other non-empty ones when it is FALSE.
RECURSIVE MemberLines(_, _, _)
MemberLines(inp, i, methods) ==
    IF i > Len(inp) \/ IsCloseLine(inp[i]) THEN <<>>
    ELSE (IF Trim(inp[i]) # <<>> /\ (Contains(inp[i], "(") <=> methods)
          THEN <<Trim(inp[i])>> ELSE <<>>)
         \o MemberLines(inp, i + 1, methods)

\* C19: in a returned Schema the interfaces stand in the order of their
\* blocks in the source, and the methods and the attributes of each in the
\* order of their declaration lines.
C19_SourceOrder ==
    presult.kind = "Ok" =>
        LET idx == ClosedFrom(input, 1)
            sch == presult.schema
        IN  /\ Len(sch) = Len(idx)
            /\ \A n \in 1..Len(idx) :
                  LET ml == MemberLines(input, idx[n] + 1, TRUE)
                      al == MemberLines(input, idx[n] + 1, FALSE)
                  IN  /\ sch[n].name = DeclaredInterfaceName(input[idx[n]])
                      /\ sch[n].methods =
                            [m \in 1..Len(ml) |-> parse_method(ml[m])]
                      /\ sch[n].attributes =
                            [a \in 1..Len(al) |-> parse_attribute(al[a])]

\* C19 witness: a returned Schema with two interfaces of different names.
C19_Witness ==
    /\ presult.kind = "Ok"
    /\ Len(presult.schema) = 2
    /\ presult.schema[1].name # presult.schema[2].name

\* C19, members: a returned Schema with an interface of two different
\* methods.
C19_WitnessMethods ==
    /\ presult.kind = "Ok"
    /\ \E n \in 1..Len(presult.schema) :
          /\ Len(presult.schema[n].methods) = 2
          /\ presult.schema[n].methods[1] # presult.schema[n].methods[2]

(***************************************************************************)
(* FFIBridgeGenerator (lib.rs:121-173).  The String `output` is kept as    *)
(* the sequence of blocks pushed onto it: a comment line, the handle type  *)
(* of an interface, or a bridge function.                                  *)
(***************************************************************************)
CommentBlock(text) ==
    [kind |-> "comment", symbol |-> <<>>, interface |-> <<>>, text |-> text]

\* lib.rs:130-145: `pub struct {name}(*mut c_void)` with from_ptr / as_ptr.
generate_handle_if_methods(interface) ==
    IF interface.methods = <<>> THEN <<>>
    ELSE <<[kind |-> "struct", symbol |-> interface.name,
            interface |-> interface.name, text |-> "from_ptr as_ptr"]>>

generate_handle(interface) ==
    <<[kind |-> "struct", symbol |-> interface.name,
       interface |-> interface.name, text |-> "from_ptr as_ptr"]>>

\* fn generate_bridge_function(interface, method) -> String:
\* `pub extern "C" fn {interface}_{method}(ptr)` whose body builds
\* `{interface}::from_ptr(ptr)` and ends at the comment.
generate_bridge_function(interface, method) ==
    [kind |-> "fn",
     symbol |-> interface.name \o <<"_">> \o method.name,
     interface |-> interface.name,
     text |-> "from_ptr"]

\* lib.rs:129-146: one pass of the first loop.
GenHandle ==
    /\ gpc = "types"
    /\ gi <= Len(schema)
    /\ output' = output \o generate_handle(schema[gi])
    /\ gi' = gi + 1
    /\ UNCHANGED <<schema, gpc, gm, invoked>>
    /\ UNCHANGED <<arenaVars, parseVars>>

\* lib.rs:149: the first loop is over, "// Bridge Functions" is pushed.
GenBeginBridges ==
    /\ gpc = "types"
    /\ gi > Len(schema)
    /\ output' = Append(output, CommentBlock("Bridge Functions"))
    /\ gpc' = "bridges"
    /\ gi' = 1
    /\ gm' = 1
    /\ UNCHANGED <<schema, invoked>>
    /\ UNCHANGED <<arenaVars, parseVars>>

\* lib.rs:151-153: one pass of the inner loop.
GenBridge ==
    /\ gpc = "bridges"
    /\ gi <= Len(schema)
    /\ gm <= Len(schema[gi].methods)
    /\ output' = Append(output,
           generate_bridge_function(schema[gi], schema[gi].methods[gm]))
    /\ gm' = gm + 1
    /\ UNCHANGED <<schema, gpc, gi, invoked>>
    /\ UNCHANGED <<arenaVars, parseVars>>

\* lib.rs:150-154: the inner loop is over, the outer loop moves on.
GenNextInterface ==
    /\ gpc = "bridges"
    /\ gi <= Len(schema)
    /\ gm > Len(schema[gi].methods)
    /\ gi' = gi + 1
    /\ gm' = 1
    /\ UNCHANGED <<schema, gpc, output, invoked>>
    /\ UNCHANGED <<arenaVars, parseVars>>

\* lib.rs:156: `output` is returned; generate has no other return.
GenReturn ==
    /\ gpc = "bridges"
    /\ gi > Len(schema)
    /\ gpc' = "done"
    /\ UNCHANGED <<schema, gi, gm, output, invoked>>
    /\ UNCHANGED <<arenaVars, parseVars>>

\* A call of the emitted function output[k] (lib.rs:162-168): its body
\* wraps the pointer with from_ptr, calls nothing and returns ().
InvokeBridge(k) ==
    /\ gpc = "done"
    /\ output[k].kind = "fn"
    /\ invoked' = [symbol |-> output[k].symbol,
                   interface |-> output[k].interface,
                   ret |-> "unit", called |-> FALSE]
    /\ UNCHANGED <<schema, gpc, gi, gm, output>>
    /\ UNCHANGED <<arenaVars, parseVars>>

\* The schemas handed to generate.
NameA == <<"A">>
NameAB == <<"A", "_", "B">>
NameB == <<"B">>
NameC == <<"C">>
NameBC == <<"B", "_", "C">>
NameZ == <<"Z">>

MethodValue(n, t) ==
    [name |-> n, return_type |-> t, arguments |-> <<>>, is_static |-> FALSE]

MethodValues ==
    {MethodValue(NameC, WebIDLType("Void")),
     MethodValue(NameBC, WebIDLType("Void")),
     MethodValue(NameC, InterfaceType(NameZ)),
     MethodValue(NameB, InterfaceType(NameA))}

AttributeLists ==
    {<<>>, <<[name |-> <<"v">>, typ |-> InterfaceType(NameZ), readonly |-> FALSE]>>}

\* The methods of ms, in order, that belong to interface i.
RECURSIVE MethodsOwnedBy(_, _)
MethodsOwnedBy(ms, i) ==
    IF ms = <<>> THEN <<>>
    ELSE (IF Head(ms)[2] = i THEN <<Head(ms)[1]>> ELSE <<>>)
         \o MethodsOwnedBy(Tail(ms), i)

\* The schema of n interfaces with names and attributes shells[i] and the
\* methods of ms, each with the index of its interface.
BuildSchema(n, shells, ms) ==
    [i \in 1..n |-> [name |-> shells[i][1],
                     methods |-> MethodsOwnedBy(ms, i),
                     attributes |-> shells[i][2]]]

Shells == {NameA, NameAB} \X AttributeLists

\* FFIBridgeGenerator::generate(&interfaces) after lib.rs:125-128.
\* The schema: up to MaxInterfaces interfaces, up to MaxMethods methods in
\* all.
GenInit ==
    /\ \E n \in 0..MaxInterfaces :
          \E shells \in [1..n -> Shells] :
             \E t \in 0..(IF n = 0 THEN 0 ELSE MaxMethods) :
                \E ms \in [1..t -> MethodValues \X (1..n)] :
                   schema = BuildSchema(n, shells, ms)
    /\ gpc = "types"
    /\ gi = 1
    /\ gm = 1
    /\ output = <<CommentBlock("FFI Types")>>
    /\ invoked = NotInvoked
    /\ ArenaIdle
    /\ input = <<>>
    /\ pos = 0
    /\ interfaces = <<>>
    /\ current_interface = None
    /\ presult = [kind |-> "Idle", err |-> "", schema |-> <<>>]

GenNext ==
    \/ GenHandle
    \/ GenBeginBridges
    \/ GenBridge
    \/ GenNextInterface
    \/ GenReturn
    \/ \E k \in 1..Len(output) : InvokeBridge(k)

GenSpec == GenInit /\ [][GenNext]_vars

(***************************************************************************)
(* Claims about generate, checked under GenSpec.                           *)
(***************************************************************************)
IsStruct(b) == b.kind = "struct"
IsFn(b) == b.kind = "fn"
Structs == SelectSeq(output, IsStruct)
Fns == SelectSeq(output, IsFn)

\* For every interface in order, its name once per method it has.
RECURSIVE OwnerNames(_)
OwnerNames(sch) ==
    IF sch = <<>> THEN <<>>
    ELSE [k \in 1..Len(Head(sch).methods) |-> Head(sch).name]
         \o OwnerNames(Tail(sch))

\* C13: the returned surface has exactly one handle type per interface, and
\* per interface exactly as many bridge functions as it has methods.
C13_HandlesAndTrampolines ==
    gpc = "done" =>
        /\ [k \in 1..Len(Structs) |-> Structs[k].symbol]
              = [i \in 1..Len(schema) |-> schema[i].name]
        /\ [k \in 1..Len(Fns) |-> Fns[k].interface] = OwnerNames(schema)

\* C13 witness: generate returned for a schema with an interface without
\* methods and an interface with two.
C13_Witness ==
    /\ gpc = "done"
    /\ \E i, j \in 1..Len(schema) :
          Len(schema[i].methods) = 0 /\ Len(schema[j].methods) = 2

\* C14: for a schema with unique interface names and unique method names
\* per interface, the export names of the bridge functions are pairwise
\* distinct.
C14_SymbolsDistinct ==
    (/\ gpc = "done"
     /\ UniqueNames(schema)
     /\ \A i \in 1..Len(schema) : UniqueNames(schema[i].methods))
    => \A k, l \in 1..Len(Fns) : k < l => Fns[k].symbol # Fns[l].symbol

\* The interface names a schema refers to: Interface(..) types of return
\* values, arguments and attributes.
ReferencedNames(sch) ==
    UNION {
      {sch[i].methods[m].return_type.name :
          m \in {m \in 1..Len(sch[i].methods) :
                    sch[i].methods[m].return_type.tag = "Interface"}}
      \cup
      {sch[i].attributes[a].typ.name :
          a \in {a \in 1..Len(sch[i].attributes) :
                    sch[i].attributes[a].typ.tag = "Interface"}} :
      i \in 1..Len(sch)}

Unresolved(sch) ==
    \E n \in ReferencedNames(sch) : \A i \in 1..Len(sch) : sch[i].name # n

\* What generate returned: it has one return, `output`, a String.
GenResult == IF gpc = "done" THEN "String" ELSE "none"

\* C15: for a schema with a reference to an interface it does not hold,
\* generate fails with UnresolvedTypeReferenceError and emits nothing.
C15_UnresolvedFails ==
    (gpc = "done" /\ Unresolved(schema))
        => (GenResult = "UnresolvedTypeReferenceError"
            /\ Structs = <<>> /\ Fns = <<>>)

\* C16: a call of a bridge function calls the implementation registered
\* for its pair, or returns DispatchError{NotRegistered}; it never ends as
\* a silent no-op.
C16_InvokeDispatches ==
    invoked.ret # "none"
        => (invoked.called \/ invoked.ret = "DispatchError{NotRegistered}")

(***************************************************************************)
(* C20, checked under ArenaSpec.                                           *)
(***************************************************************************)
\* C20: a read leaves the region's contents and size as they were, and two
\* reads of the same (ptr, len), one directly after the other, that both
\* return bytes return equal bytes.
C20_ReadChangesNothing ==
    [][/\ last'.op = "read" =>
             (memory' = memory /\ DOMAIN memory' = DOMAIN memory)
       /\ (/\ last.op = "read" /\ last.kind = "ok"
           /\ last'.op = "read" /\ last'.kind = "ok"
           /\ last'.ptr = last.ptr
           /\ last'.len = last.len)
          => last'.data = last.data
      ]_vars

=============================================================================
